---- MODULE Spec2Model ----
(***************************************************************************)
(* The tool-calling driver loop of ralph_ollama.py (main) together with    *)
(* the call extractor and the deduplicator of tool_parser.py.              *)
(*                                                                         *)
(* A provider turn is a record [tool_calls, content]: tool_calls is the    *)
(* sequence of native structured calls (empty when the provider sent       *)
(* none), content is the text, a sequence of segments, each either prose   *)
(* or a JSON call object.  A (name, arguments) pair keeps its arguments as *)
(* a set of <<key, value>> pairs, so equality of arguments is the deep     *)
(* value equality of Python dicts.                                         *)
(*                                                                         *)
(* The text pattern matcher is modelled a second time on the characters    *)
(* of a text (a sequence of tokens), with its four scans and json.loads;   *)
(* ToolExecutor.execute of tools.py and has_progress_markers work on       *)
(* result texts that are sequences of pieces.                              *)
(***************************************************************************)
EXTENDS Integers, Sequences, FiniteSets, TLC

VARIABLES
    max_steps,          \* args.max_steps
    step_count,         \* step_count
    recent_tool_calls,  \* recent_tool_calls: sequence of <<name, arguments>>
    messages,           \* messages: the conversation history
    pc,                 \* "loop" (top of the while), "exec" (inside the for), "done"
    tool_calls,         \* tool_calls after deduplication (the list the for loop walks)
    idx,                \* position of the for loop in tool_calls (1-based)
    extracted,          \* tool_calls as extract_tool_calls returned it, for the turn under way
    status,             \* how the run ended, "running" until then
    exit_code,          \* value returned by main, NoExit until then
    warned,             \* the step-limit warning of line 295 was printed
    requests,           \* completion requests made, counted up to max_steps + 1
    executed,           \* log of every call handed to tool_executor.execute
    emitted,            \* per executing turn, the ids the extractor assigned
    no_progress_warned, \* the no-progress warning of line 225 was printed
    fn_args,            \* inputs of a pure function under test
    fn_result           \* its result

vars == <<max_steps, step_count, recent_tool_calls, messages, pc, tool_calls, idx,
          extracted, status, exit_code, warned, requests, executed, emitted,
          no_progress_warned, fn_args, fn_result>>

-----------------------------------------------------------------------------
(* Bounds of the model *)

\* largest configured max_steps explored by Spec
MaxSteps == 2
\* largest number of calls one provider turn carries
MaxCalls == 2
\* max_steps of the long runs of SpecLong
LongSteps == 7
\* configured max_steps of the runs of SpecTools
ToolSteps == 2

\* largest number of chunks in a text given to the matcher alone
MaxChunks == 3

\* longest history given to the progress detector alone
MaxMessages == 4

\* longest candidate list and longest reference list given to the deduplicator alone
MaxCandidates == 3

(* Program constants *)

\* recent_tool_calls[-3:]
DedupWindow == 3
\* if len(recent_tool_calls) > 10: recent_tool_calls = recent_tool_calls[-10:]
HistoryCap == 10

-----------------------------------------------------------------------------
(* Values *)

\* main has not returned
NoExit == 0 - 1
NoArgs == <<>>
NoResult == <<>>
NoId == <<"none", 0>>

ReadPrd == [name |-> "read_file", arguments |-> {<<"path", "prd.json">>}]
ReadNotes == [name |-> "read_file", arguments |-> {<<"path", "notes.md">>}]
GitStatus == [name |-> "git_status", arguments |-> {}]

\* the (name, arguments) pairs a provider asks for
Calls == {ReadPrd, ReadNotes, GitStatus}

SeqsUpTo(S, n) == UNION {[1..k -> S] : k \in 0..n}

Min(a, b) == IF a < b THEN a ELSE b

\* s[-n:]
LastN(s, n) == IF Len(s) <= n THEN s ELSE SubSeq(s, Len(s) - n + 1, Len(s))

\* json.dumps / json.loads of an argument mapping; a payload that is not JSON
\* makes json.loads raise
Encode(args) == [json |-> TRUE, value |-> args]
BadPayload == [json |-> FALSE, value |-> {}]
Decodable(payload) == payload.json
Decode(payload) == payload.value

\* ids: provider-issued "call_<k>", synthetic "text_tool_<k>"
NativeId(k) == <<"call", k>>
\* variant: every mined call gets the id text_tool_0
SyntheticIdSame(k) == <<"text_tool", 0>>

SyntheticId(k) == <<"text_tool", k>>

\* segments of a content text
Prose == [kind |-> "prose", name |-> "", arguments |-> {}]
CallObject(c) == [kind |-> "object", name |-> c.name, arguments |-> c.arguments]
Segments == {Prose} \cup {CallObject(c) : c \in Calls}
\* texts of at most MaxCalls segments; prose, when there is some, leads the text
Texts == {t \in SeqsUpTo(Segments, MaxCalls) : \A i \in 2..Len(t) : t[i] # Prose}

\* native call records before the provider numbers them: two different calls
\* and one whose payload does not decode
NativePool == {[name |-> c.name, arguments |-> Encode(c.arguments)] : c \in {ReadPrd, GitStatus}}
                  \cup {[name |-> "read_file", arguments |-> BadPayload]}
NativeLists == SeqsUpTo(NativePool, MaxCalls) \ {<<>>}

\* the provider numbers the calls of one message call_1, call_2, ...: ids are
\* distinct within a message and recur in the next one
WithIds(l) ==
    [i \in 1..Len(l) |-> [id |-> NativeId(i), name |-> l[i].name,
                          arguments |-> l[i].arguments]]

TextResponses == {[tool_calls |-> <<>>, content |-> t] : t \in Texts}
\* a message with native calls may carry a call object in its text as well
NativeResponses ==
    {[tool_calls |-> WithIds(l), content |-> t] :
        l \in NativeLists, t \in {<<>>, <<CallObject(GitStatus)>>}}

\* what client.chat.completions.create may return in Spec
Responses == TextResponses \cup NativeResponses

\* k copies of one call object in a text
Repeat(c, k) == [i \in 1..k |-> CallObject(c)]

\* what it may return in the long runs of SpecLong: texts with no call object,
\* with one, or with MaxCalls copies of one; one text with two different call
\* objects; one undecodable native call
LongResponses ==
    {[tool_calls |-> <<>>, content |-> Repeat(c, k)] : c \in Calls, k \in {0, 1, MaxCalls}}
        \cup {[tool_calls |-> <<>>,
                content |-> <<CallObject(ReadPrd), CallObject(GitStatus)>>]}
        \cup {[tool_calls |-> WithIds(<<[name |-> "read_file", arguments |-> BadPayload]>>),
                content |-> <<>>]}

-----------------------------------------------------------------------------
(* tool_parser.py *)

\* detect_tool_calls_in_text on a text of prose and well-formed call objects:
\* the objects, left to right, as {name, arguments}
RECURSIVE detect_tool_calls_in_text(_)
detect_tool_calls_in_text(text) ==
    IF text = <<>> THEN <<>>
    ELSE LET seg == Head(text)
             rest == detect_tool_calls_in_text(Tail(text))
         IN IF seg.kind = "object"
            THEN <<[name |-> seg.name, arguments |-> seg.arguments]>> \o rest
            ELSE rest

\* json.loads(tc.function.arguments) raises for some native call
ExtractRaises(r) ==
    \E i \in 1..Len(r.tool_calls) : ~Decodable(r.tool_calls[i].arguments)

\* variant: native calls first, then the calls mined from the content
extract_tool_calls_mixed(r) ==
    LET detected_calls == detect_tool_calls_in_text(r.content)
    IN [i \in 1..Len(r.tool_calls) |->
            [name |-> r.tool_calls[i].name,
             arguments |-> Decode(r.tool_calls[i].arguments),
             id |-> r.tool_calls[i].id]]
       \o [i \in 1..Len(detected_calls) |->
               [name |-> detected_calls[i].name,
                arguments |-> detected_calls[i].arguments,
                id |-> SyntheticId(i - 1)]]

\* extract_tool_calls: the call list
extract_tool_calls(r) ==
    IF r.tool_calls # <<>>
    THEN [i \in 1..Len(r.tool_calls) |->
              [name |-> r.tool_calls[i].name,
               arguments |-> Decode(r.tool_calls[i].arguments),
               id |-> r.tool_calls[i].id]]
    ELSE LET detected_calls == detect_tool_calls_in_text(r.content)
         IN [i \in 1..Len(detected_calls) |->
                 [name |-> detected_calls[i].name,
                  arguments |-> detected_calls[i].arguments,
                  id |-> SyntheticId(i - 1)]]

\* cleaned_text: every occurrence of json.dumps({"name", "arguments"}) of a
\* detected call is replaced by ""; the call objects of a text are written as
\* json.dumps writes them, and a text has no blank segment for strip() to drop
RECURSIVE RemoveEncodings(_, _)
RemoveEncodings(text, detected_calls) ==
    IF text = <<>> THEN <<>>
    ELSE LET seg == Head(text)
             rest == RemoveEncodings(Tail(text), detected_calls)
         IN IF /\ seg.kind = "object"
               /\ \E i \in 1..Len(detected_calls) :
                      /\ detected_calls[i].name = seg.name
                      /\ detected_calls[i].arguments = seg.arguments
            THEN rest
            ELSE <<seg>> \o rest

\* extract_tool_calls: the reasoning_text
reasoning_text(r) ==
    IF r.tool_calls # <<>>
    THEN r.content
    ELSE RemoveEncodings(r.content, detect_tool_calls_in_text(r.content))

\* variant: a call counts as a duplicate as soon as the names agree
IsDuplicateByName(call, recent_calls) ==
    \E j \in 1..Len(recent_calls) : call.name = recent_calls[j][1]

\* the inner loop of deduplicate_tool_calls
IsDuplicate(call, recent_calls) ==
    \E j \in 1..Len(recent_calls) :
        call.name = recent_calls[j][1] /\ call.arguments = recent_calls[j][2]

\* variant: a candidate equal to an earlier candidate of the same list is
\* dropped as well
RECURSIVE deduplicate_tool_calls_within(_, _)
deduplicate_tool_calls_within(calls, recent_calls) ==
    IF calls = <<>> THEN <<>>
    ELSE IF IsDuplicate(Head(calls), recent_calls)
         THEN deduplicate_tool_calls_within(Tail(calls), recent_calls)
         ELSE <<Head(calls)>> \o
                  deduplicate_tool_calls_within(
                      Tail(calls),
                      Append(recent_calls, <<Head(calls).name, Head(calls).arguments>>))

RECURSIVE deduplicate_tool_calls(_, _)
deduplicate_tool_calls(calls, recent_calls) ==
    IF calls = <<>> THEN <<>>
    ELSE LET rest == deduplicate_tool_calls(Tail(calls), recent_calls)
         IN IF IsDuplicate(Head(calls), recent_calls)
            THEN rest
            ELSE <<Head(calls)>> \o rest

\* A message content is a sequence of pieces of text, cut so that a progress
\* indicator can only occur as whole pieces. str.lower() maps a piece to its
\* lowercase: the pieces below are the ones written with capitals.
LowerPiece(piece) ==
    CASE piece = "Success" -> "success"
      [] piece = "SUCCESS" -> "success"
      [] piece = "BUILD " -> "build "
      [] piece = "Committed:" -> "committed:"
      [] piece = "Patch applied " -> "patch applied "
      [] piece = "Created directory:" -> "created directory:"
      [] piece = "TEST PASSED" -> "test passed"
      [] piece = "TOOL RESULT (" -> "tool result ("
      [] piece = "Tool:" -> "tool:"
      [] piece = "TOOL:" -> "tool:"
      [] piece = "Arguments:" -> "arguments:"
      [] piece = "ARGUMENTS:" -> "arguments:"
      [] piece = "Working tree clean" -> "working tree clean"
      [] piece = "Error: Unknown tool '" -> "error: unknown tool '"
      [] piece = "Error executing " -> "error executing "
      [] piece = "Error: File not found: " -> "error: file not found: "
      [] piece = "Error writing file: " -> "error writing file: "
      [] piece = "Error: " -> "error: "
      [] OTHER -> piece

\* content.lower()
Lower(content) == [i \in 1..Len(content) |-> LowerPiece(content[i])]

\* progress_indicators; check_mark and check_mark_button stand for the two
\* check-mark characters, passes_true for the text "passes": true
progress_indicators ==
    << <<"success", "fully wrote to">>,
       <<"committed:">>,
       <<"patch applied ", "success", "fully">>,
       <<"created directory:">>,
       <<"check_mark">>,
       <<"check_mark_button">>,
       <<"success">>,
       <<"passes_true">>,
       <<"test passed">>,
       <<"all tests passed">> >>

\* indicator in content
Occurs(indicator, content) ==
    \E at \in 1..(Len(content) - Len(indicator) + 1) :
        SubSeq(content, at, at + Len(indicator) - 1) = indicator

\* the default of since_step
SinceStepDefault == 0 - 3

\* variant: every message is looked at
RecentMessagesAll(messages_, since_step) == messages_

\* messages[since_step:] if since_step < 0 else messages[-3:]
RecentMessages(messages_, since_step) ==
    IF since_step < 0 THEN LastN(messages_, 0 - since_step) ELSE LastN(messages_, 3)

has_progress_markers(messages_, since_step) ==
    \E k \in 1..Len(RecentMessages(messages_, since_step)) :
        LET msg == RecentMessages(messages_, since_step)[k]
        IN /\ msg.role = "tool"
           /\ \E n \in 1..Len(progress_indicators) :
                 Occurs(Lower(progress_indicators[n]), Lower(msg.content))

-----------------------------------------------------------------------------
(* detect_tool_calls_in_text on the characters of a text *)

\* A text is a sequence of tokens: a token is a run of characters that the
\* patterns and json.loads treat as one.
Tok(t, k, v) == [t |-> t, k |-> k, v |-> v]
LB == Tok("{", "", "")
RB == Tok("}", "", "")
LP == Tok("(", "", "")
RP == Tok(")", "", "")
Comma == Tok(",", "", "")
\* a run of blanks and newlines
WS == Tok("ws", "", "")
\* "<k>": "<v>", a member with a string value
Member(k, v) == Tok("member", k, v)
\* "<k>": , a key whose value follows
Key(k) == Tok("key", k, "")
\* a run of word characters (\w+)
Word(w) == Tok("word", "", w)
\* a label: word characters and a colon, as in Tool: and Arguments:
Label(l) == Tok("label", "", l)

\* a string value that holds an opening brace, and a number value with more
\* digits than int() converts
BraceText == "text with {"
BigNumber == "number too long for int"

\* the token holds the character {: the brace itself, or a member whose string
\* value holds one
Opens(tok) == tok = LB \/ (tok.t = "member" /\ tok.v = BraceText)

IsBrace(tok) == Opens(tok) \/ tok = RB

\* the members of an argument mapping, in some order, separated by commas
RECURSIVE MemberTokens(_)
MemberTokens(arguments) ==
    IF arguments = {} THEN <<>>
    ELSE LET pair == CHOOSE q \in arguments : TRUE
             rest == MemberTokens(arguments \ {pair})
         IN IF rest = <<>>
            THEN <<Member(pair[1], pair[2])>>
            ELSE <<Member(pair[1], pair[2]), Comma>> \o rest

\* {<members>}
ObjectTokens(arguments) == <<LB>> \o MemberTokens(arguments) \o <<RB>>

\* json.loads on the tokens of a span. An object is the set of its paths: the
\* member "k": "v" is <<k, v>>, the member "k": {...} is k before every path of
\* the inner object, and <<k, "{}">> when the inner object is empty.
\* raised: the decoder has left with an exception that is not a
\* JSONDecodeError (the ValueError of int() for a number that is too long)
NoParse == [ok |-> FALSE, raised |-> FALSE, next |-> 0, obj |-> {}]
ParseRaises == [ok |-> FALSE, raised |-> TRUE, next |-> 0, obj |-> {}]

Under(k, obj) == IF obj = {} THEN {<<k, "{}">>} ELSE {<<k>> \o path : path \in obj}

RECURSIVE ParseObject(_, _)
RECURSIVE ParseMembers(_, _)
RECURSIVE ParseMember(_, _)

\* an object that starts at toks[i]
ParseObject(toks, i) ==
    IF i > Len(toks) \/ toks[i] # LB THEN NoParse
    ELSE IF i + 1 <= Len(toks) /\ toks[i + 1] = RB
         THEN [ok |-> TRUE, raised |-> FALSE, next |-> i + 2, obj |-> {}]
         ELSE ParseMembers(toks, i + 1)

\* one member at toks[i], then a comma and more members, or the closing brace
ParseMembers(toks, i) ==
    LET m == ParseMember(toks, i)
    IN IF ~m.ok THEN m
       ELSE IF m.next > Len(toks) THEN NoParse
       ELSE IF toks[m.next] = RB
            THEN [ok |-> TRUE, raised |-> FALSE, next |-> m.next + 1, obj |-> m.obj]
            ELSE IF toks[m.next] = Comma
                 THEN LET more == ParseMembers(toks, m.next + 1)
                      IN IF more.ok
                         THEN [ok |-> TRUE, raised |-> FALSE, next |-> more.next,
                               obj |-> m.obj \cup more.obj]
                         ELSE more
                 ELSE NoParse

ParseMember(toks, i) ==
    IF i > Len(toks) THEN NoParse
    ELSE IF toks[i].t = "member"
         THEN IF toks[i].v = BigNumber
              THEN ParseRaises
              ELSE [ok |-> TRUE, raised |-> FALSE, next |-> i + 1,
                    obj |-> {<<toks[i].k, toks[i].v>>}]
         ELSE IF toks[i].t = "key"
              THEN LET inner == ParseObject(toks, i + 1)
                   IN IF inner.ok
                      THEN [ok |-> TRUE, raised |-> FALSE, next |-> inner.next,
                            obj |-> Under(toks[i].k, inner.obj)]
                      ELSE inner
              ELSE NoParse

\* json.loads(span): blanks between tokens do not count; the whole span must
\* be one object, or JSONDecodeError is raised (ok is FALSE); an exception of
\* another class leaves the decoder as soon as the number is read (raised)
json_loads(span) ==
    LET toks == SelectSeq(span, LAMBDA tok : tok # WS)
        parsed == ParseObject(toks, 1)
    IN IF parsed.raised
       THEN [ok |-> FALSE, raised |-> TRUE, obj |-> {}]
       ELSE IF parsed.ok /\ parsed.next = Len(toks) + 1
            THEN [ok |-> TRUE, raised |-> FALSE, obj |-> parsed.obj]
            ELSE [ok |-> FALSE, raised |-> FALSE, obj |-> {}]

\* "name" in obj, "arguments" in obj
HasKey(obj, k) == \E path \in obj : path[1] = k

\* obj["name"]
NameOf(obj) == (CHOOSE path \in obj : path[1] = "name")[2]

\* obj["arguments"]
ArgumentsOf(obj) == {Tail(path) : path \in {q \in obj : q[1] = "arguments"}} \ {<<"{}">>}

\* text[i], and a token that is none of the above past the end of the text
EndOfText == Tok("end", "", "")
At(text, i) == IF i >= 1 /\ i <= Len(text) THEN text[i] ELSE EndOfText

\* the least index of hits, Len(text) + 1 when there is none
Least(text, hits) ==
    IF hits = {} THEN Len(text) + 1 ELSE CHOOSE j \in hits : \A k \in hits : j <= k

\* the first index from i on of a brace ([^{}]* ends there), of a closing
\* brace ([^}]* ends there), of a token that is not blank (\s* ends there)
FirstBrace(text, i) == Least(text, {j \in i..Len(text) : IsBrace(text[j])})
FirstClose(text, i) == Least(text, {j \in i..Len(text) : text[j] = RB})
FirstNotBlank(text, i) == Least(text, {j \in i..Len(text) : text[j] # WS})

\* re.finditer: the spans <<start, end>> of the matches, left to right, none
\* overlapping another; ends[s] is the last index of the match that starts at
\* s, 0 when the pattern does not match there
RECURSIVE FindIter(_, _)
FindIter(ends, from) ==
    IF from > Len(ends) THEN <<>>
    ELSE IF ends[from] # 0
         THEN <<<<from, ends[from]>>>> \o FindIter(ends, ends[from] + 1)
         ELSE FindIter(ends, from + 1)

\* a candidate: the call, the index its match starts at, the strategy
Candidate(name, arguments, at, by) ==
    [name |-> name, arguments |-> arguments, at |-> at, by |-> by]

\* variant: a new call goes to the front of tool_calls
PutFirst(calls, call) == <<call>> \o calls

\* tool_calls.append
Put(calls, call) == Append(calls, call)

(* Pattern 1: json_pattern *)

\* the text "name" / "arguments" occurs in the token
HasNameText(tok) == tok.t = "member" /\ tok.k = "name"
HasArgumentsText(tok) == tok.t = "key" /\ tok.k = "arguments"

\* \{[^{}]*"name"[^{}]*"arguments"[^{}]*(?:\{[^{}]*\}[^{}]*)?\} from text[s] on
StrictEnd(text, s) ==
    IF ~Opens(text[s]) THEN 0
    ELSE LET e1 == FirstBrace(text, s + 1)
         IN IF ~\E i, j \in (s + 1)..(e1 - 1) :
                   i < j /\ HasNameText(text[i]) /\ HasArgumentsText(text[j])
            THEN 0
            ELSE IF At(text, e1) = RB THEN e1
                 ELSE IF ~Opens(At(text, e1)) THEN 0
                      ELSE LET e2 == FirstBrace(text, e1 + 1)
                               e3 == FirstBrace(text, e2 + 1)
                           IN IF At(text, e2) = RB /\ At(text, e3) = RB THEN e3 ELSE 0

\* json.loads of a span, kept when it decodes and has both keys
RECURSIVE ObjectCalls(_, _, _, _)
ObjectCalls(text, spans, by, calls) ==
    IF spans = <<>> THEN calls
    ELSE LET s == Head(spans)[1]
             decoded == json_loads(SubSeq(text, s, Head(spans)[2]))
         IN IF decoded.ok /\ HasKey(decoded.obj, "name") /\ HasKey(decoded.obj, "arguments")
            THEN ObjectCalls(text, Tail(spans), by,
                             Put(calls, Candidate(NameOf(decoded.obj),
                                                  ArgumentsOf(decoded.obj), s, by)))
            ELSE ObjectCalls(text, Tail(spans), by, calls)

StrictScan(text, calls) ==
    ObjectCalls(text, FindIter([s \in 1..Len(text) |-> StrictEnd(text, s)], 1), "strict", calls)

(* Pattern 1b: balanced braces *)

\* the walk over the characters: the spans text[start_idx : i + 1] at which
\* brace_depth comes back to 0 with start_idx set; start_idx 0 stands for None
RECURSIVE BraceWalk(_, _, _, _)
BraceWalk(text, i, brace_depth, start_idx) ==
    IF i > Len(text) THEN <<>>
    ELSE IF Opens(text[i])
         THEN BraceWalk(text, i + 1, brace_depth + 1,
                        IF brace_depth = 0 THEN i ELSE start_idx)
         ELSE IF text[i] = RB
              THEN IF brace_depth - 1 = 0 /\ start_idx # 0
                   THEN <<<<start_idx, i>>>> \o BraceWalk(text, i + 1, 0, 0)
                   ELSE BraceWalk(text, i + 1, brace_depth - 1, start_idx)
              ELSE BraceWalk(text, i + 1, brace_depth, start_idx)

\* brace_depth after the character text[i] has been looked at
RECURSIVE BraceDepth(_, _)
BraceDepth(text, i) ==
    IF i = 0 THEN 0
    ELSE IF Opens(text[i]) THEN BraceDepth(text, i - 1) + 1
         ELSE IF text[i] = RB THEN BraceDepth(text, i - 1) - 1
              ELSE BraceDepth(text, i - 1)

BraceScan(text, calls) == ObjectCalls(text, BraceWalk(text, 1, 0, 0), "brace", calls)

\* variant: the balanced-brace walk is always made
BraceRunsAlways(calls) == TRUE

\* if not tool_calls
BraceRuns(calls) == calls = <<>>

(* Pattern 2: multiline_pattern, with re.IGNORECASE *)

IsToolLabel(tok) == tok.t = "label" /\ LowerPiece(tok.v) = "tool:"
IsArgumentsLabel(tok) == tok.t = "label" /\ LowerPiece(tok.v) = "arguments:"

\* where the groups of Tool:\s*(\w+)\s+Arguments:\s*(\{[^}]*\}) lie when the
\* match starts at text[s]
LabelWordAt(text, s) == FirstNotBlank(text, s + 1)
LabelArgumentsAt(text, s) == FirstNotBlank(text, LabelWordAt(text, s) + 1)
LabelOpenAt(text, s) == FirstNotBlank(text, LabelArgumentsAt(text, s) + 1)

LabelEnd(text, s) ==
    IF /\ IsToolLabel(text[s])
       /\ At(text, LabelWordAt(text, s)).t = "word"
       /\ At(text, LabelWordAt(text, s) + 1) = WS
       /\ IsArgumentsLabel(At(text, LabelArgumentsAt(text, s)))
       /\ At(text, LabelOpenAt(text, s)) = LB
       /\ FirstClose(text, LabelOpenAt(text, s) + 1) <= Len(text)
    THEN FirstClose(text, LabelOpenAt(text, s) + 1)
    ELSE 0

RECURSIVE LabelCalls(_, _, _)
LabelCalls(text, spans, calls) ==
    IF spans = <<>> THEN calls
    ELSE LET s == Head(spans)[1]
             tool_name == text[LabelWordAt(text, s)].v
             decoded == json_loads(SubSeq(text, LabelOpenAt(text, s), Head(spans)[2]))
         IN IF decoded.ok
            THEN LabelCalls(text, Tail(spans),
                            Put(calls, Candidate(tool_name, decoded.obj, s, "label")))
            ELSE LabelCalls(text, Tail(spans), calls)

LabelScan(text, calls) ==
    LabelCalls(text, FindIter([s \in 1..Len(text) |-> LabelEnd(text, s)], 1), calls)

(* Pattern 3: func_call_pattern *)

common_tools ==
    {"read_file", "write_file", "list_dir", "grep",
     "git_status", "git_diff", "git_commit_all", "git_current_branch",
     "git_checkout", "git_create_branch",
     "run_cmd", "mkdir", "remove", "apply_patch",
     "run_tests", "update_prd", "append_progress", "get_next_story",
     "docker_build", "docker_compose_up", "docker_compose_down",
     "docker_exec", "docker_logs", "docker_ps", "docker_test"}

\* variant: every identifier passes
IsAnyIdentifier(tool_name) == TRUE

\* if tool_name in common_tools
IsCommonTool(tool_name) == tool_name \in common_tools

\* where the object of (\w+)\(\s*(\{[^}]*\})\s*\) lies when the match starts
\* at text[s]
CallOpenAt(text, s) == FirstNotBlank(text, s + 2)
CallCloseAt(text, s) == FirstClose(text, CallOpenAt(text, s) + 1)

CallEnd(text, s) ==
    IF /\ text[s].t = "word"
       /\ At(text, s + 1) = LP
       /\ At(text, CallOpenAt(text, s)) = LB
       /\ CallCloseAt(text, s) <= Len(text)
       /\ At(text, FirstNotBlank(text, CallCloseAt(text, s) + 1)) = RP
    THEN FirstNotBlank(text, CallCloseAt(text, s) + 1)
    ELSE 0

RECURSIVE CallSyntaxCalls(_, _, _)
CallSyntaxCalls(text, spans, calls) ==
    IF spans = <<>> THEN calls
    ELSE LET s == Head(spans)[1]
             tool_name == text[s].v
             decoded == json_loads(SubSeq(text, CallOpenAt(text, s), CallCloseAt(text, s)))
         IN IF IsCommonTool(tool_name) /\ decoded.ok
            THEN CallSyntaxCalls(text, Tail(spans),
                                 Put(calls, Candidate(tool_name, decoded.obj, s, "call")))
            ELSE CallSyntaxCalls(text, Tail(spans), calls)

CallSyntaxScan(text, calls) ==
    CallSyntaxCalls(text, FindIter([s \in 1..Len(text) |-> CallEnd(text, s)], 1), calls)

(* detect_tool_calls_in_text *)

\* json.loads leaves one of the spans with an exception that the except
\* clauses of the function do not name
SpanRaises(text, spans) ==
    \E n \in 1..Len(spans) : json_loads(SubSeq(text, spans[n][1], spans[n][2])).raised

\* the function raises: some span that a strategy hands to json.loads makes it
\* raise; the spans are those of every strict match, of the balanced-brace
\* walk when it is made, of group 2 of every label match, and of group 2 of
\* every call-syntax match with a known name
DetectRaises(text) ==
    LET strict == FindIter([s \in 1..Len(text) |-> StrictEnd(text, s)], 1)
        label == FindIter([s \in 1..Len(text) |-> LabelEnd(text, s)], 1)
        call == SelectSeq(FindIter([s \in 1..Len(text) |-> CallEnd(text, s)], 1),
                          LAMBDA span : IsCommonTool(text[span[1]].v))
    IN \/ SpanRaises(text, strict)
       \/ /\ BraceRuns(StrictScan(text, <<>>))
          /\ SpanRaises(text, BraceWalk(text, 1, 0, 0))
       \/ SpanRaises(text, [n \in 1..Len(label) |->
                               <<LabelOpenAt(text, label[n][1]), label[n][2]>>])
       \/ SpanRaises(text, [n \in 1..Len(call) |->
                               <<CallOpenAt(text, call[n][1]), CallCloseAt(text, call[n][1])>>])

\* the list tool_calls after each strategy, each candidate with the index and
\* the strategy that found it, the strategies that were run, and whether an
\* exception left the function in the place of a result
DetectInTokens(text) ==
    LET after_strict == StrictScan(text, <<>>)
        after_brace == IF BraceRuns(after_strict)
                       THEN BraceScan(text, after_strict)
                       ELSE after_strict
        after_label == LabelScan(text, after_brace)
        after_call == CallSyntaxScan(text, after_label)
    IN [found |-> after_call,
        ran |-> {"strict", "label", "call"}
                    \cup IF BraceRuns(after_strict) THEN {"brace"} ELSE {},
        raised |-> DetectRaises(text)]

\* what the function returns: the {name, arguments} of the candidates
ReturnedCalls(found) ==
    [n \in 1..Len(found) |-> [name |-> found[n].name, arguments |-> found[n].arguments]]

\* json.dumps of the members of an object: "key": value members separated by
\* a comma and a blank, a nested object written in place between its braces
RECURSIVE DumpMembers(_)
DumpMembers(obj) ==
    IF obj = {} THEN <<>>
    ELSE LET k == CHOOSE key \in {path[1] : path \in obj} : TRUE
             under == {path \in obj : path[1] = k}
             member == IF \E path \in under : Len(path) = 2 /\ path[2] # "{}"
                       THEN <<Member(k, (CHOOSE path \in under : Len(path) = 2)[2])>>
                       ELSE <<Key(k), LB>>
                                \o DumpMembers({Tail(path) : path \in under} \ {<<"{}">>})
                                \o <<RB>>
         IN IF obj \ under = {}
            THEN member
            ELSE member \o <<Comma, WS>> \o DumpMembers(obj \ under)

DumpObject(obj) == <<LB>> \o DumpMembers(obj) \o <<RB>>

\* json.dumps({"name": call["name"], "arguments": call["arguments"]})
json_dumps(call) ==
    <<LB, Member("name", call.name), Comma, WS, Key("arguments")>>
        \o DumpObject(call.arguments) \o <<RB>>

-----------------------------------------------------------------------------
(* tools.py: ToolExecutor.execute *)

\* tool names of the if/elif chain that the model's providers ask for
KnownTools == {"read_file", "write_file", "git_status"}

\* the keys execute reads with arguments[...] before it calls the tool
RequiredArgs(tool_name) ==
    CASE tool_name = "read_file" -> {"path"}
      [] tool_name = "write_file" -> {"path", "content"}
      [] OTHER -> {}

Keys(arguments) == {pair[1] : pair \in arguments}

Returned(text) == [raised |-> FALSE, text |-> text]
RaisedException == [raised |-> TRUE, text |-> <<>>]

\* what the tool's method returns when it succeeds
ToolSucceeds(tool_name) ==
    CASE tool_name = "read_file" -> <<"file body">>
      [] tool_name = "write_file" -> <<"Success", "fully wrote to", " notes.md">>
      [] OTHER -> <<"Working tree clean">>

\* what it returns when it reports a failure of its own
ToolFails(tool_name) ==
    CASE tool_name = "read_file" -> <<"Error: File not found: ", "prd.json">>
      [] tool_name = "write_file" -> <<"Error writing file: ", "permission denied">>
      [] OTHER -> <<"Error: ", "not a git repository">>

\* how a tool may behave once called: return its result, return an error
\* text of its own, or raise
ToolBehaviours == {"returns", "fails", "raises"}

\* the body of the try block: a name outside the chain gets the unknown-tool
\* text; a missing required key raises KeyError before the tool is called
Dispatch(tool_name, arguments, inner) ==
    IF tool_name \notin KnownTools
    THEN Returned(<<"Error: Unknown tool '", tool_name, "'">>)
    ELSE IF RequiredArgs(tool_name) \ Keys(arguments) # {}
         THEN RaisedException
         ELSE CASE inner = "raises" -> RaisedException
                [] inner = "fails" -> Returned(ToolFails(tool_name))
                [] OTHER -> Returned(ToolSucceeds(tool_name))

\* variant: no try/except around the chain
execute_unguarded(tool_name, arguments, inner) == Dispatch(tool_name, arguments, inner)

\* execute: except Exception turns a raise into the "Error executing" text
execute(tool_name, arguments, inner) ==
    IF Dispatch(tool_name, arguments, inner).raised
    THEN Returned(<<"Error executing ", tool_name, ": ", "exception text">>)
    ELSE Dispatch(tool_name, arguments, inner)

-----------------------------------------------------------------------------
(* ralph_ollama.py: main *)

SystemMsg ==
    [role |-> "system", tool_calls |-> <<>>, tool_call_id |-> NoId, name |-> "",
     content |-> <<>>]
UserMsg ==
    [role |-> "user", tool_calls |-> <<>>, tool_call_id |-> NoId, name |-> "",
     content |-> <<>>]

\* variant: the native call records are left out of the assistant message
AssistantMsgWithoutCalls(r) ==
    [role |-> "assistant", tool_calls |-> <<>>, tool_call_id |-> NoId,
     name |-> "", content |-> <<>>]

\* assistant_msg: tool_calls is set only for a turn with native calls, and then
\* to every native call of the provider's message; its content, the response
\* text, is left out
AssistantMsg(r) ==
    [role |-> "assistant", tool_calls |-> r.tool_calls, tool_call_id |-> NoId,
     name |-> "", content |-> <<>>]

\* variant: the correlation id is always the fallback call_<step_count>
ToolIdFallback(call, sc) == NativeId(sc)

\* tool_call.get("id", f"call_{step_count}")
ToolId(call, sc) == IF "id" \in DOMAIN call THEN call.id ELSE NativeId(sc)

\* f"TOOL RESULT ({tool_name}):\n{result}"
ToolResultContent(tool_name, result) == <<"TOOL RESULT (", tool_name, "):">> \o result

\* tool_result_msg; name repeats the tool name of the content
ToolResultMsg(call, sc, result) ==
    [role |-> "tool", tool_calls |-> <<>>, tool_call_id |-> ToolId(call, sc),
     name |-> call.name, content |-> ToolResultContent(call.name, result)]

\* variant: while step_count <= args.max_steps
LoopCondInclusive(sc, n) == sc <= n

\* while step_count < args.max_steps
LoopCond(sc, n) == sc < n

\* variant: the warning test is step_count > args.max_steps
StepLimitExceeded(sc, n) == sc > n

\* after the loop: if step_count >= args.max_steps, print the warning
StepLimitReached(sc, n) == sc >= n

\* variant: the increment stands inside the for loop, one per executed call
StepIncrPerCall(sc) == sc + Len(tool_calls)

\* variant: the increment is missing
StepIncrSkipped(sc) == sc

\* step_count += 1
StepIncr(sc) == sc + 1

\* variant: the whole call history is the reference
DedupReferenceAll(recent) == recent

\* the dedup reference: recent_tool_calls[-3:]
DedupReference(recent) == LastN(recent, DedupWindow)

\* variant: the trim cuts the history to fewer entries than the dedup window
TrimHistoryBelowWindow(recent) ==
    IF Len(recent) > HistoryCap THEN LastN(recent, DedupWindow - 1) ELSE recent

\* variant: the trim keeps the oldest entries
TrimHistoryOldest(recent) == IF Len(recent) > HistoryCap THEN SubSeq(recent, 1, HistoryCap) ELSE recent

\* the trim at the end of a turn
TrimHistory(recent) == IF Len(recent) > HistoryCap THEN LastN(recent, HistoryCap) ELSE recent

\* variant: the for loop walks the list backwards
CurrentCallReversed(calls, i) == calls[Len(calls) - i + 1]

\* the call the for loop is at
CurrentCall(calls, i) == calls[i]

\* variant: the calls are numbered after deduplication
SurvivingRenumbered(r, recent) ==
    LET kept == deduplicate_tool_calls(extract_tool_calls(r), DedupReference(recent))
    IN [i \in 1..Len(kept) |->
            [name |-> kept[i].name, arguments |-> kept[i].arguments,
             id |-> IF r.tool_calls # <<>> THEN kept[i].id ELSE SyntheticId(i - 1)]]

\* tool_calls of the turn for response r, after deduplication
Surviving(r, recent) == deduplicate_tool_calls(extract_tool_calls(r), DedupReference(recent))

CountRequest == requests' = Min(requests + 1, max_steps + 1)

\* variant: the except branch returns 0
FailReturnsZero(why) ==
    /\ pc' = "done"
    /\ status' = why
    /\ exit_code' = 0
    /\ UNCHANGED <<max_steps, step_count, recent_tool_calls, messages, tool_calls, idx,
                   extracted, warned, executed, emitted, no_progress_warned,
                   fn_args, fn_result>>

\* return 1 from the except branch
Fail(why) ==
    /\ pc' = "done"
    /\ status' = why
    /\ exit_code' = 1
    /\ UNCHANGED <<max_steps, step_count, recent_tool_calls, messages, tool_calls, idx,
                   extracted, warned, executed, emitted, no_progress_warned,
                   fn_args, fn_result>>

\* client.chat.completions.create raises
CompletionRaises ==
    /\ pc = "loop"
    /\ LoopCond(step_count, max_steps)
    /\ CountRequest
    /\ Fail("request_failed")

\* a native argument payload does not decode: extract_tool_calls raises
ParseFails(R) ==
    /\ pc = "loop"
    /\ LoopCond(step_count, max_steps)
    /\ \E r \in R : ExtractRaises(r)
    /\ CountRequest
    /\ Fail("parse_failed")

\* variant: the break is missing, the loop goes on to the next request
NormalCompletionContinues(R) ==
    /\ pc = "loop"
    /\ LoopCond(step_count, max_steps)
    /\ \E r \in R :
          /\ ~ExtractRaises(r)
          /\ Surviving(r, recent_tool_calls) = <<>>
          /\ extracted' = extract_tool_calls(r)
    /\ CountRequest
    /\ tool_calls' = <<>>
    /\ UNCHANGED <<max_steps, step_count, recent_tool_calls, messages, pc, idx, status,
                   exit_code, warned, executed, emitted, no_progress_warned,
                   fn_args, fn_result>>

\* variant: a run that ends without recent progress returns 1
NormalCompletionStalledFails(R) ==
    /\ pc = "loop"
    /\ LoopCond(step_count, max_steps)
    /\ \E r \in R :
          /\ ~ExtractRaises(r)
          /\ Surviving(r, recent_tool_calls) = <<>>
          /\ extracted' = extract_tool_calls(r)
    /\ CountRequest
    /\ tool_calls' = <<>>
    /\ pc' = "done"
    /\ status' = "completed"
    /\ warned' = StepLimitReached(step_count, max_steps)
    /\ exit_code' = IF has_progress_markers(messages, SinceStepDefault) THEN 0 ELSE 1
    /\ no_progress_warned' = ~has_progress_markers(messages, SinceStepDefault)
    /\ UNCHANGED <<max_steps, step_count, recent_tool_calls, messages, idx, executed,
                   emitted, fn_args, fn_result>>

\* variant: the text of the last turn is appended to the history before the break
NormalCompletionAppends(R) ==
    /\ pc = "loop"
    /\ LoopCond(step_count, max_steps)
    /\ \E r \in R :
          /\ ~ExtractRaises(r)
          /\ Surviving(r, recent_tool_calls) = <<>>
          /\ extracted' = extract_tool_calls(r)
          /\ messages' = Append(messages, AssistantMsg(r))
    /\ CountRequest
    /\ tool_calls' = <<>>
    /\ pc' = "done"
    /\ status' = "completed"
    /\ warned' = StepLimitReached(step_count, max_steps)
    /\ exit_code' = 0
    /\ no_progress_warned' = ~has_progress_markers(messages, SinceStepDefault)
    /\ UNCHANGED <<max_steps, step_count, recent_tool_calls, idx, executed,
                   emitted, fn_args, fn_result>>

\* no tool call is left after deduplication: break, then return 0
NormalCompletion(R) ==
    /\ pc = "loop"
    /\ LoopCond(step_count, max_steps)
    /\ \E r \in R :
          /\ ~ExtractRaises(r)
          /\ Surviving(r, recent_tool_calls) = <<>>
          /\ extracted' = extract_tool_calls(r)
    /\ CountRequest
    /\ tool_calls' = <<>>
    /\ pc' = "done"
    /\ status' = "completed"
    /\ warned' = StepLimitReached(step_count, max_steps)
    /\ exit_code' = 0
    /\ no_progress_warned' = ~has_progress_markers(messages, SinceStepDefault)
    /\ UNCHANGED <<max_steps, step_count, recent_tool_calls, messages, idx, executed,
                   emitted, fn_args, fn_result>>

\* at least one call is left: append the assistant message, enter the for loop
BeginTurn(R) ==
    /\ pc = "loop"
    /\ LoopCond(step_count, max_steps)
    /\ \E r \in R :
          /\ ~ExtractRaises(r)
          /\ Surviving(r, recent_tool_calls) # <<>>
          /\ extracted' = extract_tool_calls(r)
          /\ tool_calls' = Surviving(r, recent_tool_calls)
          /\ messages' = Append(messages, AssistantMsg(r))
          /\ emitted' = Append(emitted, [i \in 1..Len(extract_tool_calls(r)) |->
                                             extract_tool_calls(r)[i].id])
    /\ CountRequest
    /\ idx' = 1
    /\ pc' = "exec"
    /\ UNCHANGED <<max_steps, step_count, recent_tool_calls, status, exit_code, warned,
                   executed, no_progress_warned,
                   fn_args, fn_result>>

\* one pass of the for loop: execute, remember the call, append the result;
\* B is how the tool behind the call may behave. An exception that left
\* execute would reach the except branch of main.
ExecuteCall(B) ==
    /\ pc = "exec"
    /\ idx <= Len(tool_calls)
    /\ \E inner \in B :
          LET tool_call == CurrentCall(tool_calls, idx)
              result == execute(tool_call.name, tool_call.arguments, inner)
          IN IF result.raised
             THEN /\ Fail("tool_raised")
                  /\ UNCHANGED requests
             ELSE /\ executed' = Append(executed, tool_call)
                  /\ recent_tool_calls' =
                         Append(recent_tool_calls, <<tool_call.name, tool_call.arguments>>)
                  /\ messages' = Append(messages, ToolResultMsg(tool_call, step_count, result.text))
                  /\ idx' = idx + 1
                  /\ UNCHANGED <<max_steps, step_count, pc, tool_calls, extracted, status,
                                 exit_code, warned, requests, emitted, no_progress_warned,
                                 fn_args, fn_result>>

\* after the for loop: count the step, trim the call history
EndTurn ==
    /\ pc = "exec"
    /\ idx > Len(tool_calls)
    /\ step_count' = StepIncr(step_count)
    /\ recent_tool_calls' = TrimHistory(recent_tool_calls)
    /\ pc' = "loop"
    /\ extracted' = <<>>
    /\ UNCHANGED <<max_steps, messages, tool_calls, idx, status, exit_code,
                   warned, requests, executed, emitted, no_progress_warned,
                   fn_args, fn_result>>

\* the while condition fails: warn, return 0
Exhausted ==
    /\ pc = "loop"
    /\ ~LoopCond(step_count, max_steps)
    /\ pc' = "done"
    /\ status' = "exhausted"
    /\ warned' = StepLimitReached(step_count, max_steps)
    /\ exit_code' = 0
    /\ UNCHANGED <<max_steps, step_count, recent_tool_calls, messages, tool_calls, idx,
                   extracted, requests, executed, emitted, no_progress_warned,
                   fn_args, fn_result>>

InitDriver(N) ==
    /\ max_steps \in N
    /\ step_count = 0
    /\ recent_tool_calls = <<>>
    /\ messages = <<SystemMsg, UserMsg>>
    /\ pc = "loop"
    /\ tool_calls = <<>>
    /\ idx = 1
    /\ extracted = <<>>
    /\ status = "running"
    /\ exit_code = NoExit
    /\ warned = FALSE
    /\ requests = 0
    /\ executed = <<>>
    /\ emitted = <<>>
    /\ no_progress_warned = FALSE
    /\ fn_args = NoArgs
    /\ fn_result = NoResult

Init == InitDriver(0..MaxSteps)

Next ==
    \/ CompletionRaises
    \/ ParseFails(Responses)
    \/ NormalCompletion(Responses)
    \/ BeginTurn(Responses)
    \/ ExecuteCall({"returns"})
    \/ EndTurn
    \/ Exhausted

Spec == Init /\ [][Next]_vars

\* every step of the single thread is eventually taken: a completion request
\* and a tool invocation return or raise
SpecFair == Spec /\ WF_vars(Next)

(* Long runs: one configured max_steps, a narrow provider *)

InitLong == InitDriver({LongSteps})

NextLong ==
    \/ CompletionRaises
    \/ ParseFails(LongResponses)
    \/ NormalCompletion(LongResponses)
    \/ BeginTurn(LongResponses)
    \/ ExecuteCall({"returns"})
    \/ EndTurn
    \/ Exhausted

SpecLong == InitLong /\ [][NextLong]_vars

(* Runs whose tools fail: a narrow provider, every behaviour of a tool *)

WriteNotes ==
    [name |-> "write_file", arguments |-> {<<"path", "notes.md">>, <<"content", "text">>}]
\* a name outside the if/elif chain of execute
Frobnicate == [name |-> "frobnicate", arguments |-> {}]
\* read_file without its path
ReadNoPath == [name |-> "read_file", arguments |-> {}]

\* what the provider may return in SpecTools: a text with no call object, with
\* one, with a failing call followed by a second call; one undecodable
\* native call
ToolResponses ==
    {[tool_calls |-> <<>>, content |-> <<>>]}
        \cup {[tool_calls |-> <<>>, content |-> <<CallObject(c)>>] :
                 c \in {WriteNotes, ReadPrd, Frobnicate, ReadNoPath}}
        \cup {[tool_calls |-> <<>>, content |-> <<CallObject(Frobnicate), CallObject(WriteNotes)>>],
              [tool_calls |-> <<>>, content |-> <<CallObject(ReadNoPath), CallObject(ReadPrd)>>]}
        \cup {[tool_calls |-> WithIds(<<[name |-> "read_file", arguments |-> BadPayload]>>),
                content |-> <<>>]}

InitTools == InitDriver({ToolSteps})

NextTools ==
    \/ CompletionRaises
    \/ ParseFails(ToolResponses)
    \/ NormalCompletion(ToolResponses)
    \/ BeginTurn(ToolResponses)
    \/ ExecuteCall(ToolBehaviours)
    \/ EndTurn
    \/ Exhausted

SpecTools == InitTools /\ [][NextTools]_vars

(* deduplicate_tool_calls alone, on every candidate list and reference list *)

\* candidate lists carry the ids of their positions, as the extractor leaves them
Numbered(l) ==
    [i \in 1..Len(l) |-> [name |-> l[i].name, arguments |-> l[i].arguments,
                          id |-> SyntheticId(i - 1)]]

DedupInputs ==
    {[tool_calls |-> Numbered(l), recent_calls |-> ref] :
        l \in SeqsUpTo(Calls, MaxCandidates),
        ref \in SeqsUpTo({<<c.name, c.arguments>> : c \in Calls}, MaxCandidates)}

InitDedup ==
    /\ max_steps = 0
    /\ step_count = 0
    /\ recent_tool_calls = <<>>
    /\ messages = <<SystemMsg, UserMsg>>
    /\ pc = "call"
    /\ tool_calls = <<>>
    /\ idx = 1
    /\ extracted = <<>>
    /\ status = "running"
    /\ exit_code = NoExit
    /\ warned = FALSE
    /\ requests = 0
    /\ executed = <<>>
    /\ emitted = <<>>
    /\ no_progress_warned = FALSE
    /\ fn_args \in DedupInputs
    /\ fn_result = NoResult

ApplyDedup ==
    /\ pc = "call"
    /\ fn_result' = deduplicate_tool_calls(fn_args.tool_calls, fn_args.recent_calls)
    /\ pc' = "returned"
    /\ UNCHANGED <<max_steps, step_count, recent_tool_calls, messages, tool_calls, idx,
                   extracted, status, exit_code, warned, requests, executed, emitted,
                   no_progress_warned, fn_args>>

NextDedup == ApplyDedup

SpecDedup == InitDedup /\ [][NextDedup]_vars

(* The pure functions alone: the driver's variables stay at their initial values *)

InitIdle ==
    /\ max_steps = 0
    /\ step_count = 0
    /\ recent_tool_calls = <<>>
    /\ messages = <<SystemMsg, UserMsg>>
    /\ tool_calls = <<>>
    /\ idx = 1
    /\ extracted = <<>>
    /\ status = "running"
    /\ exit_code = NoExit
    /\ warned = FALSE
    /\ requests = 0
    /\ executed = <<>>
    /\ emitted = <<>>
    /\ no_progress_warned = FALSE

DriverIdle ==
    UNCHANGED <<max_steps, step_count, recent_tool_calls, messages, tool_calls, idx,
                extracted, status, exit_code, warned, requests, executed, emitted,
                no_progress_warned>>

(* extract_tool_calls alone, on every provider message *)

\* provider messages: no native call and any text, or native calls that all
\* decode beside any text, or native calls of which one does not decode
ExtractInputs ==
    TextResponses
        \cup {[tool_calls |-> WithIds(l), content |-> t] : l \in NativeLists, t \in Texts}

Raised == [raised |-> TRUE, tool_calls |-> <<>>, reasoning_text |-> <<>>]

InitExtract ==
    /\ InitIdle
    /\ pc = "extract"
    /\ fn_args \in ExtractInputs
    /\ fn_result = NoResult

ApplyExtract ==
    /\ pc = "extract"
    /\ fn_result' = IF ExtractRaises(fn_args)
                    THEN Raised
                    ELSE [raised |-> FALSE,
                          tool_calls |-> extract_tool_calls(fn_args),
                          reasoning_text |-> reasoning_text(fn_args)]
    /\ pc' = "extracted"
    /\ DriverIdle
    /\ UNCHANGED fn_args

NextExtract == ApplyExtract

SpecExtract == InitExtract /\ [][NextExtract]_vars

(* has_progress_markers alone, on every short history *)

\* contents of a history message: a write_file result, the same in capitals
\* only, a read_file result, a result that ends with a check mark
ProgressContents ==
    {ToolResultContent("write_file", <<"Success", "fully wrote to", " prd.json">>),
     ToolResultContent("run_cmd", <<"BUILD ", "SUCCESS">>),
     ToolResultContent("read_file", <<"file body">>),
     ToolResultContent("run_tests", <<"3 passed ", "check_mark">>)}

\* tool-role and assistant-role messages with these contents
ProgressMessages ==
    {[role |-> role, tool_calls |-> <<>>, tool_call_id |-> NoId, name |-> "",
      content |-> c] : role \in {"tool", "assistant"}, c \in ProgressContents}

InitProgress ==
    /\ InitIdle
    /\ pc = "detect"
    /\ fn_args \in SeqsUpTo(ProgressMessages, MaxMessages)
    /\ fn_result = NoResult

ApplyProgress ==
    /\ pc = "detect"
    /\ fn_result' = has_progress_markers(fn_args, SinceStepDefault)
    /\ pc' = "detected"
    /\ DriverIdle
    /\ UNCHANGED fn_args

NextProgress == ApplyProgress

SpecProgress == InitProgress /\ [][NextProgress]_vars

(* detect_tool_calls_in_text alone, on texts built from chunks *)

\* chunks of a text beside prose and the strict call object of Segments: a
\* call object whose arguments lie one object deeper, one whose arguments come
\* before its name, one with a stray word before its last brace, a Tool: /
\* Arguments: pair, the same in capitals, identifier(object), a lone brace
Chunk(kind, c) == [kind |-> kind, name |-> c.name, arguments |-> c.arguments]
\* an identifier outside common_tools
Summarize == [name |-> "summarize", arguments |-> {<<"path", "prd.json">>}]
NoCall == [name |-> "", arguments |-> {}]

MatchChunks ==
    {Prose, CallObject(ReadPrd), CallObject(GitStatus),
     Chunk("object_nested", ReadPrd), Chunk("object_args_first", GitStatus),
     Chunk("object_broken", ReadPrd),
     Chunk("label", ReadPrd), Chunk("label_caps", GitStatus),
     Chunk("call_syntax", ReadPrd), Chunk("call_syntax", Summarize),
     Chunk("stray_close", NoCall), Chunk("stray_open", NoCall)}

\* the characters of a chunk
ChunkTokens(seg) ==
    CASE seg.kind = "prose" -> <<Word("please")>>
      [] seg.kind = "object" ->
             <<LB, Member("name", seg.name), Comma, Key("arguments")>>
                 \o ObjectTokens(seg.arguments) \o <<RB>>
      [] seg.kind = "object_nested" ->
             <<LB, Member("name", seg.name), Comma, Key("arguments"), LB, Key("options")>>
                 \o ObjectTokens(seg.arguments) \o <<RB, RB>>
      [] seg.kind = "object_args_first" ->
             <<LB, Key("arguments")>> \o ObjectTokens(seg.arguments)
                 \o <<Comma, Member("name", seg.name), RB>>
      [] seg.kind = "object_broken" ->
             <<LB, Member("name", seg.name), Comma, Key("arguments")>>
                 \o ObjectTokens(seg.arguments) \o <<Word("oops"), RB>>
      [] seg.kind = "label" ->
             <<Label("Tool:"), WS, Word(seg.name), WS, Label("Arguments:"), WS>>
                 \o ObjectTokens(seg.arguments)
      [] seg.kind = "label_caps" ->
             <<Label("TOOL:"), WS, Word(seg.name), WS, Label("ARGUMENTS:"), WS>>
                 \o ObjectTokens(seg.arguments)
      [] seg.kind = "call_syntax" ->
             <<Word(seg.name), LP>> \o ObjectTokens(seg.arguments) \o <<RP>>
      [] seg.kind = "stray_close" -> <<RB>>
      [] OTHER -> <<LB>>

\* the characters of a text: its chunks with blanks between them
RECURSIVE TextTokens(_)
TextTokens(chunks) ==
    IF chunks = <<>> THEN <<>>
    ELSE IF Len(chunks) = 1 THEN ChunkTokens(chunks[1])
         ELSE ChunkTokens(chunks[1]) \o <<WS>> \o TextTokens(Tail(chunks))

InitMatch ==
    /\ InitIdle
    /\ pc = "match"
    /\ fn_args \in SeqsUpTo(MatchChunks, MaxChunks)
    /\ fn_result = NoResult

ApplyMatch ==
    /\ pc = "match"
    /\ fn_result' = [tool_calls |-> ReturnedCalls(DetectInTokens(TextTokens(fn_args)).found),
                     found |-> DetectInTokens(TextTokens(fn_args)).found,
                     ran |-> DetectInTokens(TextTokens(fn_args)).ran]
    /\ pc' = "matched"
    /\ DriverIdle
    /\ UNCHANGED fn_args

NextMatch == ApplyMatch

SpecMatch == InitMatch /\ [][NextMatch]_vars

(* detect_tool_calls_in_text on texts whose values strain the decoder, and on
   its own calls written back as call objects *)

\* write_file with a content that holds an opening brace
WriteBrace == [name |-> "write_file", arguments |-> {<<"content", BraceText>>}]
\* read_file with a limit of more digits than int() converts
ReadBig == [name |-> "read_file", arguments |-> {<<"limit", BigNumber>>}]

DecodeChunks ==
    {Prose, CallObject(GitStatus), CallObject(ReadPrd), CallObject(ReadBig),
     Chunk("object_broken", ReadPrd), Chunk("object_nested", ReadPrd),
     Chunk("object_args_first", GitStatus),
     Chunk("label", ReadPrd), Chunk("label", WriteBrace),
     Chunk("call_syntax", WriteBrace),
     Chunk("stray_close", NoCall), Chunk("stray_open", NoCall)}

\* the outcome of one call of the function: an exception and no list, or the
\* list with the strategies that were run
Outcome(text) ==
    IF DetectRaises(text)
    THEN [found |-> <<>>, ran |-> {}, raised |-> TRUE]
    ELSE DetectInTokens(text)

InitDecode ==
    /\ InitIdle
    /\ pc = "scan"
    /\ fn_args \in SeqsUpTo(DecodeChunks, MaxChunks)
    /\ fn_result = NoResult

\* the function is called on the text
ApplyDetect ==
    /\ pc = "scan"
    /\ fn_result' = Outcome(TextTokens(fn_args))
    /\ pc' = "scanned"
    /\ DriverIdle
    /\ UNCHANGED fn_args

\* every returned call is written with json.dumps as a call object
ApplyDumps ==
    /\ pc = "scanned"
    /\ ~fn_result.raised
    /\ fn_result' = [found |-> fn_result.found,
                     ran |-> fn_result.ran,
                     raised |-> FALSE,
                     texts |-> [n \in 1..Len(fn_result.found) |->
                                    json_dumps(fn_result.found[n])]]
    /\ pc' = "written"
    /\ DriverIdle
    /\ UNCHANGED fn_args

\* the function is called on each of these texts
ApplyDetectAgain ==
    /\ pc = "written"
    /\ fn_result' = [found |-> fn_result.found,
                     ran |-> fn_result.ran,
                     raised |-> FALSE,
                     texts |-> fn_result.texts,
                     again |-> [n \in 1..Len(fn_result.texts) |->
                                    Outcome(fn_result.texts[n])]]
    /\ pc' = "rescanned"
    /\ DriverIdle
    /\ UNCHANGED fn_args

NextDecode == ApplyDetect \/ ApplyDumps \/ ApplyDetectAgain

SpecDecode == InitDecode /\ [][NextDecode]_vars

-----------------------------------------------------------------------------
(* Properties *)

IsPair(c, d) == c.name = d.name /\ c.arguments = d.arguments

ToolMessages == SelectSeq(messages, LAMBDA m : m.role = "tool")

\* number of assistant messages among the first p messages
AssistantsUpTo(p) == Cardinality({i \in 1..p : messages[i].role = "assistant"})

NumAssistant == AssistantsUpTo(Len(messages))

\* C1: with max_steps = N >= 0 and any provider, the loop makes at most N
\* completion requests (one per iteration), at most N turns execute tool calls,
\* and step_count never exceeds N.
StepBound ==
    /\ requests <= max_steps
    /\ step_count <= max_steps
    /\ Len(emitted) <= max_steps
    /\ NumAssistant <= max_steps

\* a provider that asked for a call on every turn ran into the limit
StepBoundReached ==
    /\ status = "exhausted"
    /\ max_steps >= 2
    /\ step_count = max_steps
    /\ requests = max_steps
    /\ NumAssistant = max_steps

\* C2: when every completion request and every tool invocation returns or
\* raises, the driver reaches a terminal state (normal completion, step
\* exhaustion or failure) and stays there.
Terminates ==
    <>[](pc = "done" /\ status \in {"completed", "exhausted", "request_failed", "parse_failed"})

\* a run that executed a turn and then ended normally
TerminatedAfterTurn == pc = "done" /\ status = "completed" /\ step_count >= 1

\* C3: every tool-role message carries the id the extractor gave the call whose
\* execution produced it, for native ids and for synthetic ids.
CorrelationById ==
    /\ Len(ToolMessages) = Len(executed)
    /\ \A k \in 1..Len(executed) :
          /\ ToolMessages[k].tool_call_id = executed[k].id
          /\ ToolMessages[k].name = executed[k].name

\* a history that answers a native call and a text-mined call
BothIdPaths ==
    /\ \E k \in 1..Len(ToolMessages) : ToolMessages[k].tool_call_id = NativeId(1)
    /\ \E k \in 1..Len(ToolMessages) : ToolMessages[k].tool_call_id = SyntheticId(0)

KeptPositions(cands, ref) ==
    {i \in 1..Len(cands) :
        \A j \in 1..Len(ref) : <<cands[i].name, cands[i].arguments>> # ref[j]}

\* out lists cands at the positions K, in increasing order
IsSelection(out, cands, K) ==
    /\ Len(out) = Cardinality(K)
    /\ \A k \in 1..Len(out) :
          \E i \in K : Cardinality({m \in K : m < i}) = k - 1 /\ out[k] = cands[i]

DedupIsOrderedFilter ==
    pc = "returned" =>
        IsSelection(fn_result, fn_args.tool_calls,
                    KeptPositions(fn_args.tool_calls, fn_args.recent_calls))

\* candidates [A, B, A] with a reference holding A give [B]
DedupExample ==
    /\ pc = "returned"
    /\ fn_args.tool_calls = Numbered(<<ReadPrd, GitStatus, ReadPrd>>)
    /\ fn_args.recent_calls = <<<<ReadPrd.name, ReadPrd.arguments>>>>
    /\ fn_result = <<[name |-> "git_status", arguments |-> {}, id |-> SyntheticId(1)]>>

-----------------------------------------------------------------------------
\* the calls of l that equal none of the last DedupWindow executed calls
NotRecentlyExecuted(l) ==
    SelectSeq(l, LAMBDA c :
        \A k \in 1..Len(executed) :
            k > Len(executed) - DedupWindow => ~IsPair(c, executed[k]))

\* the turn's dedup decision has been taken and none of its calls has run yet
JustDeduplicated == (pc = "exec" /\ idx = 1) \/ status = "completed"

\* C6: a dedup decision compares the candidates with the 3 most recently
\* executed calls only (fewer when fewer exist): a candidate equal to an older
\* executed call survives and is executed again.
DedupUsesLastThree == JustDeduplicated => tool_calls = NotRecentlyExecuted(extracted)

\* a call has just run again although it ran before, more than 3 executions
\* back, in a turn that began after the call history had been trimmed
ExecutedAgain ==
    /\ pc = "exec"
    /\ idx = 2
    /\ Len(executed) > Len(recent_tool_calls)
    /\ \E k \in 1..Len(executed) :
          /\ Len(executed) - k > DedupWindow
          /\ IsPair(executed[k], executed[Len(executed)])

\* C7 (state part): inside a turn the history ends with the assistant message
\* followed by the results of the calls run so far, in the order of the list,
\* and every executed call has its result in the history.
TurnInOrder ==
    pc = "exec" =>
        LET k == idx - 1
            n == Len(messages)
        IN /\ k <= Len(tool_calls)
           /\ n - k >= 1
           /\ messages[n - k].role = "assistant"
           /\ Len(ToolMessages) = Len(executed)
           /\ \A j \in 1..k :
                 /\ messages[n - k + j].role = "tool"
                 /\ messages[n - k + j].tool_call_id = tool_calls[j].id
                 /\ messages[n - k + j].name = tool_calls[j].name
                 /\ executed[Len(executed) - k + j] = tool_calls[j]

\* C7: the surviving calls of a turn run one at a time in extraction order,
\* each result is in the history before the next call starts, and no
\* completion request is made while the turn's calls run.
SequentialExecution ==
    /\ []TurnInOrder
    /\ [][pc = "exec" => requests' = requests]_vars
    /\ [][/\ Len(executed') <= Len(executed) + 1
          /\ Len(executed') > Len(executed) => Len(messages') = Len(messages) + 1]_vars

\* both calls of a turn with two different calls have run
TwoCallsRun ==
    /\ pc = "exec"
    /\ idx = 3
    /\ ~IsPair(tool_calls[1], tool_calls[2])

\* C8: recent_tool_calls never holds more than 10 entries, in the middle of a
\* turn either.
HistoryWithinCap == Len(recent_tool_calls) <= HistoryCap

RequestFailureIsFinal ==
    /\ [](status = "request_failed" => (pc = "done" /\ exit_code = 1))
    /\ [][status = "request_failed" => UNCHANGED <<requests, executed, messages>>]_vars

\* the request raised after a turn that executed calls
RequestFailedAfterTurn ==
    /\ status = "request_failed"
    /\ step_count >= 1
    /\ Len(executed) >= 1
    /\ requests = step_count + 1

-----------------------------------------------------------------------------
\* C11: only a failure of the completion request makes the driver end with
\* failure status; a parsing failure, a native argument payload that does not
\* decode included, never does.
FailureOnlyFromRequest == exit_code = 1 => status = "request_failed"

-----------------------------------------------------------------------------
\* C13: a run that finds step_count at the configured maximum stops with exit
\* code 0 and the step-limit warning, and the warning is printed exactly in the
\* runs that end by step exhaustion: never on normal completion, never on
\* failure.
WarnedIffExhausted ==
    pc = "done" =>
        /\ warned <=> status = "exhausted"
        /\ status = "exhausted" => (exit_code = 0 /\ step_count = max_steps)

ExhaustionIsSuccess ==
    /\ []WarnedIffExhausted
    /\ [][(pc = "loop" /\ step_count >= max_steps) =>
             (pc' = "done" /\ status' = "exhausted" /\ exit_code' = 0 /\ warned')]_vars

\* a run whose every turn asked for a call ended at the limit, warned, with 0
ExhaustedWithWarning ==
    /\ pc = "done"
    /\ status = "exhausted"
    /\ max_steps >= 1
    /\ step_count = max_steps
    /\ warned
    /\ exit_code = 0

-----------------------------------------------------------------------------
\* the assistant message of the turn under execution
CurrentAssistant ==
    messages[CHOOSE p \in 1..Len(messages) :
                 /\ messages[p].role = "assistant"
                 /\ \A q \in (p + 1)..Len(messages) : messages[q].role # "assistant"]

\* the turn under execution had no native call: its calls were mined from text
TextTurn == pc = "exec" /\ CurrentAssistant.tool_calls = <<>>

\* C17: in a turn without native calls the n mined calls carry the ids
\* text_tool_0 .. text_tool_(n-1) in discovery order, pairwise distinct, and a
\* call that survives deduplication keeps the id of its discovery position.
SyntheticIdsByDiscovery ==
    TextTurn =>
        /\ \A i \in 1..Len(extracted) : extracted[i].id = SyntheticId(i - 1)
        /\ \A i, j \in 1..Len(extracted) : i # j => extracted[i].id # extracted[j].id
        /\ \A j \in 1..Len(tool_calls) :
              \E i \in 1..Len(extracted) : tool_calls[j] = extracted[i]

\* the first of two mined calls was a recent repeat: the survivor is text_tool_1
SurvivorKeepsIndex ==
    /\ TextTurn
    /\ Len(extracted) = 2
    /\ Len(tool_calls) = 1
    /\ tool_calls[1].id = SyntheticId(1)

-----------------------------------------------------------------------------
\* C16: for a message with native calls extract_tool_calls returns exactly
\* those calls, in order, each with its id and its decoded arguments, returns
\* the whole content as reasoning_text and mines no call from the text: the
\* returned list never mixes native and synthetic calls.
NativeVerbatim ==
    (pc = "extracted" /\ fn_args.tool_calls # <<>> /\ ~fn_result.raised) =>
        /\ Len(fn_result.tool_calls) = Len(fn_args.tool_calls)
        /\ \A i \in 1..Len(fn_args.tool_calls) :
              /\ fn_result.tool_calls[i].id = fn_args.tool_calls[i].id
              /\ fn_result.tool_calls[i].name = fn_args.tool_calls[i].name
              /\ Encode(fn_result.tool_calls[i].arguments) = fn_args.tool_calls[i].arguments
        /\ fn_result.reasoning_text = fn_args.content

NeverMixed ==
    pc = "extracted" =>
        \/ \A i \in 1..Len(fn_result.tool_calls) : fn_result.tool_calls[i].id[1] = "call"
        \/ \A i \in 1..Len(fn_result.tool_calls) : fn_result.tool_calls[i].id[1] = "text_tool"

NativeSkipsMining == NativeVerbatim /\ NeverMixed

\* two native calls beside a text that carries a call object of its own
NativeBesideTextCall ==
    /\ pc = "extracted"
    /\ Len(fn_args.tool_calls) = 2
    /\ detect_tool_calls_in_text(fn_args.content) # <<>>
    /\ Len(fn_result.tool_calls) = 2
    /\ fn_result.tool_calls[2].id = NativeId(2)
    /\ fn_result.reasoning_text = fn_args.content

-----------------------------------------------------------------------------
\* the texts execute can return for the calls of the model
IsResultText(tool_name, text) ==
    \/ text = <<"Error: Unknown tool '", tool_name, "'">>
    \/ text = <<"Error executing ", tool_name, ": ", "exception text">>
    \/ text = ToolSucceeds(tool_name)
    \/ text = ToolFails(tool_name)

LastMessage(h) == h[Len(h)]

\* C12: execute returns a text for every name and every arguments and lets no
\* exception out; after a call with an unknown name or a failing tool the
\* driver appends that text as a tool-role message and goes on with the next
\* call and the next turn: it does not terminate.
ToolFailureNeverEndsRun == status # "tool_raised"

-----------------------------------------------------------------------------
\* C14: the progress detector is advisory. The step that consults it leaves
\* the message history, the call history and step_count as they are and ends
\* the run with exit code 0 whatever the detector returns; the detector's
\* value decides the no-progress warning and nothing else, and the warning
\* is written by no other step.
DetectorOnlyWarns ==
    /\ [][(status = "running" /\ status' = "completed") =>
             /\ messages' = messages
             /\ recent_tool_calls' = recent_tool_calls
             /\ step_count' = step_count
             /\ pc' = "done"
             /\ exit_code' = 0
             /\ no_progress_warned' = ~has_progress_markers(messages, SinceStepDefault)]_vars
    /\ [][no_progress_warned' # no_progress_warned => status' = "completed"]_vars
    /\ [](pc = "done" => (no_progress_warned => status = "completed"))

\* a run that completed with progress in its last messages and no warning,
\* after a turn: the same completion as that of a run that was warned
CompletedWithProgress ==
    /\ status = "completed"
    /\ exit_code = 0
    /\ step_count >= 1
    /\ ~no_progress_warned
    /\ has_progress_markers(messages, SinceStepDefault)

\* a run that completed after a turn, was warned, and ended with 0 all the same
CompletedWithWarning ==
    /\ status = "completed"
    /\ exit_code = 0
    /\ step_count >= 1
    /\ no_progress_warned

-----------------------------------------------------------------------------
\* the contents of ProgressContents in which a success marker occurs when
\* letter case is ignored: "Successfully wrote to", "SUCCESS", the check mark
MarkedContents ==
    {ToolResultContent("write_file", <<"Success", "fully wrote to", " prd.json">>),
     ToolResultContent("run_cmd", <<"BUILD ", "SUCCESS">>),
     ToolResultContent("run_tests", <<"3 passed ", "check_mark">>)}

\* C15: has_progress_markers(messages) with the default window is true exactly
\* when one of the last 3 messages has role tool and a content in which a
\* success marker occurs, letter case ignored; markers in messages of another
\* role and in older messages do not count.
ProgressIffRecentToolMarker ==
    pc = "detected" =>
        (fn_result <=>
            \E i \in 1..Len(fn_args) :
                /\ i > Len(fn_args) - 3
                /\ fn_args[i].role = "tool"
                /\ fn_args[i].content \in MarkedContents)

\* a marked tool result four messages back and a marked assistant message in
\* the window: no progress
OldAndForeignMarkersIgnored ==
    /\ pc = "detected"
    /\ Len(fn_args) = 4
    /\ fn_args[1].role = "tool"
    /\ fn_args[1].content \in MarkedContents
    /\ fn_args[3].role = "assistant"
    /\ fn_args[3].content \in MarkedContents
    /\ fn_result = FALSE

\* the marker is written in capitals in the third message from the end
CapitalMarkerCounts ==
    /\ pc = "detected"
    /\ Len(fn_args) = 4
    /\ fn_args[2].role = "tool"
    /\ fn_args[2].content = ToolResultContent("run_cmd", <<"BUILD ", "SUCCESS">>)
    /\ \A i \in {1, 3, 4} : fn_args[i].content \notin MarkedContents
    /\ fn_result = TRUE

-----------------------------------------------------------------------------
\* the candidates of fn_result that strategy `by` found
FoundBy(by) == SelectSeq(fn_result.found, LAMBDA c : c.by = by)

\* C18: the brace-balanced scan runs exactly when the strict object scan
\* yielded no call, the label-pair and call-syntax scans always run, and the
\* result is the concatenation of the strategies' results in the order strict,
\* brace-balanced, label-pair, call-syntax, with nothing removed across
\* strategies.
StrategiesConcatenated ==
    pc = "matched" =>
        LET text == TextTokens(fn_args)
            strict == StrictScan(text, <<>>)
            brace == IF strict = <<>> THEN BraceScan(text, <<>>) ELSE <<>>
        IN /\ "brace" \in fn_result.ran <=> strict = <<>>
           /\ {"strict", "label", "call"} \subseteq fn_result.ran
           /\ fn_result.found =
                  strict \o brace \o LabelScan(text, <<>>) \o CallSyntaxScan(text, <<>>)
           /\ FoundBy("brace") # <<>> => FoundBy("strict") = <<>>
           /\ fn_result.tool_calls = ReturnedCalls(fn_result.found)

\* a text with a nested call object, a strict call object and a label pair for
\* the same call: the strict scan found one, so the nested one is not looked
\* for, and the call is returned twice, from the strict and the label scan
BraceSkippedDuplicateKept ==
    /\ pc = "matched"
    /\ fn_args = <<Chunk("object_nested", ReadPrd), CallObject(ReadPrd), Chunk("label", ReadPrd)>>
    /\ BraceScan(TextTokens(fn_args), <<>>) # <<>>
    /\ "brace" \notin fn_result.ran
    /\ fn_result.tool_calls = <<ReadPrd, ReadPrd>>
    /\ fn_result.found[1].by = "strict"
    /\ fn_result.found[2].by = "label"

\* a nested call object alone: the strict scan found nothing, the
\* brace-balanced scan ran and found the call
BraceRanAfterEmptyStrict ==
    /\ pc = "matched"
    /\ fn_args = <<Chunk("object_nested", ReadPrd)>>
    /\ "brace" \in fn_result.ran
    /\ Len(fn_result.found) = 1
    /\ fn_result.found[1].by = "brace"

-----------------------------------------------------------------------------
StrategyRank(by) ==
    CASE by = "strict" -> 1
      [] by = "brace" -> 2
      [] by = "label" -> 3
      [] OTHER -> 4

LaterStrategyComesLast ==
    /\ pc = "matched"
    /\ fn_args = <<Chunk("label", ReadPrd), CallObject(GitStatus)>>
    /\ fn_result.tool_calls = <<GitStatus, ReadPrd>>
    /\ fn_result.found[1].at > fn_result.found[2].at

-----------------------------------------------------------------------------
\* the index at which chunk k of the text starts, and the one at which it ends
RECURSIVE ChunkStart(_, _)
ChunkStart(chunks, k) ==
    IF k = 1 THEN 1
    ELSE ChunkStart(chunks, k - 1) + Len(ChunkTokens(chunks[k - 1])) + 1

ChunkLast(chunks, k) == ChunkStart(chunks, k) + Len(ChunkTokens(chunks[k])) - 1

\* C20: the call-syntax scan returns a call for identifier(object) only if
\* the identifier is one of the known tool names; the same text with an
\* identifier outside the registry yields no call.
CallSyntaxNeedsKnownName ==
    pc = "matched" =>
        /\ \A n \in 1..Len(fn_result.found) :
              fn_result.found[n].by = "call" =>
                  /\ fn_result.found[n].name \in common_tools
                  /\ \E k \in 1..Len(fn_args) :
                        /\ fn_args[k].kind = "call_syntax"
                        /\ fn_args[k].name = fn_result.found[n].name
                        /\ ChunkStart(fn_args, k) = fn_result.found[n].at
        /\ \A k \in 1..Len(fn_args) :
              (fn_args[k].kind = "call_syntax" /\ fn_args[k].name \notin common_tools) =>
                  \A n \in 1..Len(fn_result.found) :
                      \/ fn_result.found[n].at < ChunkStart(fn_args, k)
                      \/ fn_result.found[n].at > ChunkLast(fn_args, k)
        /\ (\A k \in 1..Len(fn_args) :
               \/ fn_args[k].kind = "prose"
               \/ fn_args[k].kind = "call_syntax" /\ fn_args[k].name \notin common_tools) =>
              fn_result.tool_calls = <<>>

\* summarize({...}) and read_file({...}) with the same object: one call,
\* read_file, found at the second chunk
OnlyKnownNameFound ==
    /\ pc = "matched"
    /\ fn_args = <<Chunk("call_syntax", Summarize), Chunk("call_syntax", ReadPrd)>>
    /\ fn_result.tool_calls = <<ReadPrd>>
    /\ fn_result.found[1].by = "call"
    /\ fn_result.found[1].at = ChunkStart(fn_args, 2)

-----------------------------------------------------------------------------
\* the (name, arguments) pairs of a list of calls
Pairs(l) == [i \in 1..Len(l) |-> <<l[i].name, l[i].arguments>>]

\* the calls of the turn under execution that have run
RunThisTurn == SubSeq(tool_calls, 1, idx - 1)

\* C24: every executed call is pushed onto recent_tool_calls once, in
\* execution order, and a call the deduplicator removed is not pushed: at the
\* top of the loop recent_tool_calls is the min(10, total) most recently
\* executed calls, oldest first, and inside a turn its tail is the calls of the
\* turn that have run.
HistoryIsLastExecuted ==
    /\ pc = "loop" => recent_tool_calls = LastN(Pairs(executed), HistoryCap)
    /\ pc = "exec" =>
          /\ Len(recent_tool_calls) >= idx - 1
          /\ LastN(recent_tool_calls, idx - 1) = Pairs(RunThisTurn)
          /\ LastN(Pairs(executed), idx - 1) = Pairs(RunThisTurn)
          /\ recent_tool_calls = LastN(Pairs(executed), Len(recent_tool_calls))

PushedOncePerExecution ==
    /\ []HistoryIsLastExecuted
    /\ [][pc = "exec" /\ idx <= Len(tool_calls) =>
             /\ executed' = Append(executed, tool_calls[idx])
             /\ recent_tool_calls' =
                    Append(recent_tool_calls, <<tool_calls[idx].name, tool_calls[idx].arguments>>)]_vars
    /\ [][~(pc = "exec" /\ idx <= Len(tool_calls)) =>
             /\ executed' = executed
             /\ Len(recent_tool_calls') <= Len(recent_tool_calls)]_vars

\* the top of the loop after six turns: one turn had two candidates of which
\* the deduplicator removed one, eleven calls have run, the history holds the
\* last ten
HistoryTrimmedAtTurnStart ==
    /\ pc = "loop"
    /\ step_count = 6
    /\ Len(executed) = 11
    /\ \E t \in 1..Len(emitted) :
          /\ Len(emitted[t]) = 2
          /\ \A u \in 1..Len(emitted) : u # t => Len(emitted[u]) = 2
          /\ Len(executed) < 2 * Len(emitted)
    /\ Len(recent_tool_calls) = HistoryCap
    /\ recent_tool_calls = SubSeq(Pairs(executed), 2, 11)

-----------------------------------------------------------------------------
\* the calls of l whose pair is none of the last DedupWindow entries of recent
AbsentFromWindow(l, recent) ==
    SelectSeq(l, LAMBDA c :
        \A k \in 1..Len(recent) :
            k > Len(recent) - DedupWindow => recent[k] # <<c.name, c.arguments>>)

\* C25: the candidates of a turn are filtered once, against the last 3
\* entries of the call history as it stood when the turn began; the filtered
\* list is not touched while the turn's calls run, and every call of it is
\* executed, so that two identical candidates absent from the window both run,
\* one right after the other.
FilteredOnceAtTurnStart ==
    /\ [][(pc = "loop" /\ pc' = "exec") =>
             tool_calls' = AbsentFromWindow(extracted', recent_tool_calls)]_vars
    /\ [][(pc = "exec" /\ pc' = "exec") =>
             /\ tool_calls' = tool_calls
             /\ executed' = Append(executed, tool_calls[idx])]_vars
    /\ [][(pc = "exec" /\ pc' = "loop") =>
             /\ idx = Len(tool_calls) + 1
             /\ LastN(executed, Len(tool_calls)) = tool_calls]_vars

\* both of two identical candidates have run in one turn, one after the other
IdenticalPairRun ==
    /\ pc = "exec"
    /\ Len(tool_calls) = 2
    /\ idx = 3
    /\ IsPair(tool_calls[1], tool_calls[2])
    /\ tool_calls[1].id # tool_calls[2].id
    /\ LastN(executed, 2) = tool_calls
    /\ LastN(recent_tool_calls, 2) = Pairs(tool_calls)

-----------------------------------------------------------------------------
\* the turn under execution was extracted from native calls
NativeTurn == pc = "exec" /\ extracted # <<>> /\ extracted[1].id[1] = "call"

\* the index of the assistant message of the turn under execution
CurrentAssistantAt == Len(messages) - (idx - 1)

\* C26: in a native-call turn with a surviving call the assistant message
\* records every native call of the provider's message, the ones the
\* deduplicator removed included; the tool-role messages after it answer the
\* surviving calls, in order, and nothing else, so a recorded call that was
\* removed has no answer.
AssistantRecordsAllNative ==
    NativeTurn =>
        LET recorded == messages[CurrentAssistantAt].tool_calls
        IN /\ messages[CurrentAssistantAt].role = "assistant"
           /\ Len(recorded) = Len(extracted)
           /\ \A j \in 1..Len(extracted) :
                 /\ recorded[j].id = extracted[j].id
                 /\ recorded[j].name = extracted[j].name
                 /\ recorded[j].arguments = Encode(extracted[j].arguments)
           /\ tool_calls = AbsentFromWindow(extracted, SubSeq(recent_tool_calls, 1,
                                                Len(recent_tool_calls) - (idx - 1)))
           /\ tool_calls # <<>>
           /\ \A j \in 1..(idx - 1) :
                 /\ messages[CurrentAssistantAt + j].role = "tool"
                 /\ messages[CurrentAssistantAt + j].tool_call_id = tool_calls[j].id
           /\ \A j \in 1..Len(recorded) :
                 (\A k \in 1..Len(tool_calls) : tool_calls[k].id # recorded[j].id) =>
                     \A q \in (CurrentAssistantAt + 1)..Len(messages) :
                         messages[q].tool_call_id # recorded[j].id

\* the first of two native calls repeated a call of the turn before: both are
\* recorded, the second alone was run and answered
RemovedCallRecordedUnanswered ==
    /\ NativeTurn
    /\ Len(messages[CurrentAssistantAt].tool_calls) = 2
    /\ Len(tool_calls) = 1
    /\ idx = 2
    /\ tool_calls[1].id = NativeId(2)
    /\ messages[Len(messages)].role = "tool"
    /\ messages[Len(messages)].tool_call_id = NativeId(2)
    /\ messages[Len(messages) - 1].role = "assistant"
    /\ messages[Len(messages) - 1].tool_calls[1].id = NativeId(1)

-----------------------------------------------------------------------------
\* the history is a system message, a user message, then blocks of one
\* assistant message and the tool-role messages that answer it; the last
\* block may still lack its answers only while its first call is about to run
HistoryShape ==
    /\ Len(messages) >= 2
    /\ messages[1].role = "system"
    /\ messages[2].role = "user"
    /\ \A p \in 3..Len(messages) : messages[p].role \in {"assistant", "tool"}
    /\ Len(messages) >= 3 => messages[3].role = "assistant"
    /\ \A p \in 3..Len(messages) :
          messages[p].role = "assistant" =>
              /\ p < Len(messages) => messages[p + 1].role = "tool"
              /\ p = Len(messages) => (pc = "exec" /\ idx = 1)
    /\ pc # "exec" => messages[Len(messages)].role \in {"user", "tool"}

\* C27: the message history only grows, one message at a time, and is at every
\* turn boundary and at the end of the run one system message, one user
\* message, then zero or more blocks of one assistant message followed by one
\* or more tool-role messages (inside a turn the last block is being
\* written); the turn that ends the run appends nothing.
HistoryAppendOnlyInBlocks ==
    /\ []HistoryShape
    /\ [][/\ Len(messages') \in {Len(messages), Len(messages) + 1}
          /\ SubSeq(messages', 1, Len(messages)) = messages]_vars
    /\ [][(pc = "loop" /\ pc' = "done") => messages' = messages]_vars
    /\ [][pc = "done" => messages' = messages]_vars

\* a run of one block with two answers, ended by a turn whose candidates were
\* recent repeats: nothing was appended for it, the history ends with a tool
\* message
BlockThenSilentEnd ==
    /\ status = "completed"
    /\ extracted # <<>>
    /\ Len(messages) = 5
    /\ messages[3].role = "assistant"
    /\ messages[4].role = "tool"
    /\ messages[5].role = "tool"
-----------------------------------------------------------------------------
-----------------------------------------------------------------------------
\* the list a driver that never trims would hold: every executed pair
FullHistory == Pairs(executed)

\* the dedup decision of that driver
UntrimmedSurviving(r) ==
    deduplicate_tool_calls(extract_tool_calls(r), DedupReference(FullHistory))

\* one step of the driver that holds FullHistory in the place of
\* recent_tool_calls and has no lines 285-286, told by what it does to the
\* executed calls and to the message history
UntrimmedStep(R) ==
    \/ /\ pc = "loop"
       /\ pc' = "done"
       /\ status' \in {"request_failed", "parse_failed", "exhausted"}
       /\ messages' = messages
       /\ executed' = executed
    \/ /\ pc = "loop"
       /\ status' = "completed"
       /\ \E r \in R :
             /\ ~ExtractRaises(r)
             /\ UntrimmedSurviving(r) = <<>>
             /\ extracted' = extract_tool_calls(r)
       /\ messages' = messages
       /\ executed' = executed
    \/ /\ pc = "loop"
       /\ pc' = "exec"
       /\ \E r \in R :
             /\ ~ExtractRaises(r)
             /\ UntrimmedSurviving(r) # <<>>
             /\ extracted' = extract_tool_calls(r)
             /\ tool_calls' = UntrimmedSurviving(r)
             /\ messages' = Append(messages, AssistantMsg(r))
       /\ executed' = executed
    \/ /\ pc = "exec"
       /\ idx <= Len(tool_calls)
       /\ tool_calls' = tool_calls
       /\ executed' = Append(executed, tool_calls[idx])
       /\ messages' = Append(messages,
                             ToolResultMsg(tool_calls[idx], step_count,
                                           ToolSucceeds(tool_calls[idx].name)))
    \/ /\ pc = "exec"
       /\ idx > Len(tool_calls)
       /\ pc' = "loop"
       /\ step_count' = step_count + 1
       /\ messages' = messages
       /\ executed' = executed

\* C29: the trim of recent_tool_calls to its last 10 entries changes no dedup
\* decision: every step of the driver is a step of the driver that keeps the
\* whole list of executed calls, with the same executed calls and the same
\* message history, since the last 3 entries of the two lists agree whenever a
\* decision is taken.
TrimChangesNoDecision ==
    /\ [](pc = "loop" => DedupReference(recent_tool_calls) = DedupReference(FullHistory))
    /\ [][UntrimmedStep(LongResponses)]_vars

\* a decision taken after the history was trimmed: the list holds 10 of the 12
\* executed calls, and one of the two candidates was removed as a repeat
DecisionAfterTrim ==
    /\ pc = "exec"
    /\ idx = 1
    /\ Len(executed) = 12
    /\ Len(recent_tool_calls) = HistoryCap
    /\ Len(extracted) = 2
    /\ Len(tool_calls) = 1

-----------------------------------------------------------------------------
\* C30: in the brace-balanced scan brace_depth is never negative, and a
\* closing brace without its opening brace earlier in the text does not keep
\* the scan from returning a later well-formed call object whose arguments
\* hold a nested object.
DepthNeverNegative ==
    (pc = "matched" /\ "brace" \in fn_result.ran) =>
        /\ \A i \in 1..Len(TextTokens(fn_args)) : BraceDepth(TextTokens(fn_args), i) >= 0
        /\ \A k \in 1..Len(fn_args) :
              (/\ fn_args[k].kind = "object_nested"
               /\ \A j \in 1..(k - 1) : fn_args[j].kind \in {"prose", "stray_close"}) =>
                  \E n \in 1..Len(fn_result.found) :
                      /\ fn_result.found[n].by = "brace"
                      /\ fn_result.found[n].at = ChunkStart(fn_args, k)
                      /\ fn_result.found[n].name = fn_args[k].name

-----------------------------------------------------------------------------
\* the function has been called on the text of fn_args
Scanned == pc \in {"scanned", "written", "rescanned"}

\* the list the function returned
ReturnedList == ReturnedCalls(fn_result.found)

\* C21: detect_tool_calls_in_text returns a list for every text and never
\* raises; a span that looks like a call and does not decode gives no
\* candidate, and the spans after it are examined all the same.
MatcherIsTotal ==
    Scanned =>
        /\ ~fn_result.raised
        /\ \A k \in 1..Len(fn_args) :
              fn_args[k].kind = "object_broken" =>
                  \A n \in 1..Len(fn_result.found) :
                      \/ fn_result.found[n].at < ChunkStart(fn_args, k)
                      \/ fn_result.found[n].at > ChunkLast(fn_args, k)
        /\ \A k \in 1..Len(fn_args) :
              (/\ fn_args[k].kind \in {"object", "label"}
               /\ \E j \in 1..(k - 1) : fn_args[j].kind = "object_broken") =>
                  \E n \in 1..Len(fn_result.found) :
                      fn_result.found[n].at = ChunkStart(fn_args, k)

-----------------------------------------------------------------------------
\* C22: every call the function returns is found again, with the same name
\* and equal arguments, in the text json.dumps({"name", "arguments"}) of the
\* call.
RoundTripStable ==
    pc = "rescanned" =>
        \A n \in 1..Len(ReturnedList) :
            /\ ~fn_result.again[n].raised
            /\ \E m \in 1..Len(fn_result.again[n].found) :
                  ReturnedCalls(fn_result.again[n].found)[m] = ReturnedList[n]

-----------------------------------------------------------------------------
\* C23: a text with one well-formed call object with no nested braces, with
\* nothing around it but prose, lone braces and a call object that does not
\* decode (the narrowest surroundings the claim speaks of), yields exactly one
\* call, with the name and the arguments of the object.
SingleSpanExactlyOne ==
    Scanned =>
        \A k \in 1..Len(fn_args) :
            (/\ fn_args[k].kind = "object"
             /\ \A j \in 1..Len(fn_args) :
                   j # k => fn_args[j].kind \in {"prose", "stray_close", "stray_open",
                                                 "object_broken"}) =>
                /\ ~fn_result.raised
                /\ ReturnedList =
                       <<[name |-> fn_args[k].name, arguments |-> fn_args[k].arguments]>>

====
